---- MODULE Spec2Model ----
(***************************************************************************)
(* A model of the form builder of src/script.js (class FormBuilder): the   *)
(* field collection, the response collection, localStorage, the three      *)
(* rendered views and the live input state of the preview.                 *)
(*                                                                         *)
(* Strings are sequences of one-character strings, so that trim,           *)
(* toLowerCase, split and join are computed as the code computes them.     *)
(* A JavaScript object is a function from its own property names to their  *)
(* values; a property holding undefined carries the value Undefined.       *)
(***************************************************************************)
EXTENDS Integers, Sequences, FiniteSets, TLC

\* ---------------------------------------------------------------- bounds
MaxFields == 2
MaxResponses == 2
MaxClock == 1
\* The number of user events (clicks, keystrokes, reloads) of a session.
MaxEvents == 4

\* ---------------------------------------------------------------- inputs
\* What the user may type into #field-label before an add-field click.
LabelInputs == { <<>>, <<" ">>, <<"a">>, <<"A">>, <<"b">> }
\* What prompt("Enter new label:") may return; Null is the cancel button.
Null == <<"\\null">>
PromptInputs == { Null, <<>>, <<"A">> }
\* The <option> values of #field-type.
FieldTypes == { "text", "radio", "checkbox" }
\* What the user may type into #field-options-input.
OptionsInputs == { <<"r", ",", " ", "b">> }
\* What the user may type into a text input of the preview.
TextInputs == { <<>>, <<"x">> }

\* --------------------------------------------------------------- strings
IsWhiteSpace(c) == c = " "

RECURSIVE TrimStart(_)
TrimStart(s) ==
    IF s # <<>> /\ IsWhiteSpace(Head(s)) THEN TrimStart(Tail(s)) ELSE s

RECURSIVE TrimEnd(_)
TrimEnd(s) ==
    IF s # <<>> /\ IsWhiteSpace(s[Len(s)])
    THEN TrimEnd(SubSeq(s, 1, Len(s) - 1))
    ELSE s

\* String.prototype.trim
Trim(s) == TrimEnd(TrimStart(s))

LowerChar(c) ==
    CASE c = "A" -> "a"
      [] c = "B" -> "b"
      [] c = "R" -> "r"
      [] c = "X" -> "x"
      [] OTHER -> c

\* String.prototype.toLowerCase
RECURSIVE ToLowerCase(_)
ToLowerCase(s) ==
    IF s = <<>> THEN <<>> ELSE <<LowerChar(Head(s))>> \o ToLowerCase(Tail(s))

\* The index of the first "," of s, 0 when there is none.
RECURSIVE IndexOfComma(_, _)
IndexOfComma(s, i) ==
    IF i > Len(s) THEN 0
    ELSE IF s[i] = "," THEN i
    ELSE IndexOfComma(s, i + 1)

\* String.prototype.split(','): "" splits into one empty string.
RECURSIVE Split(_)
Split(s) ==
    LET i == IndexOfComma(s, 1)
    IN  IF i = 0 THEN <<s>>
        ELSE <<SubSeq(s, 1, i - 1)>> \o Split(SubSeq(s, i + 1, Len(s)))

\* Array.prototype.join(', ')
RECURSIVE Join(_)
Join(arr) ==
    IF arr = <<>> THEN <<>>
    ELSE IF Len(arr) = 1 THEN arr[1]
    ELSE arr[1] \o <<",", " ">> \o Join(Tail(arr))

DigitChar(n) ==
    CASE n = 0 -> "0" [] n = 1 -> "1" [] n = 2 -> "2" [] n = 3 -> "3"
      [] n = 4 -> "4" [] n = 5 -> "5" [] n = 6 -> "6" [] n = 7 -> "7"
      [] n = 8 -> "8" [] OTHER -> "9"

\* The decimal text of a number, as a template literal writes it.
RECURSIVE NumToString(_)
NumToString(n) ==
    IF n < 10 THEN <<DigitChar(n)>>
    ELSE NumToString(n \div 10) \o <<DigitChar(n % 10)>>

\* `${type}-${Date.now()}`: the type word, a dash, the clock's digits.
FieldIdOf(type, t) == <<type, "-">> \o NumToString(t)

\* `${Date.now()}`
FormIdOf(t) == NumToString(t)

\* ------------------------------------------------------- objects and JSON
\* The value of `options` of a field: undefined, or an array of strings.
Undefined == [defined |-> FALSE, items |-> <<>>]
ArrayOf(items) == [defined |-> TRUE, items |-> items]

\* Reading a property: a missing own property reads as undefined. Of a
\* FormField only `options` is ever undefined.
OptionsOf(field) ==
    IF "options" \in DOMAIN field THEN field.options ELSE Undefined

\* An answer value: a string (Text, Radio) or an array of strings (Checkbox).
StringValue(s) == [isArray |-> FALSE, str |-> s, arr |-> <<>>]
ArrayValue(a) == [isArray |-> TRUE, str |-> <<>>, arr |-> a]

\* JSON.stringify of one field: a property holding undefined is left out.
StringifyField(field) ==
    IF OptionsOf(field) = Undefined
    THEN [k \in DOMAIN field \ {"options"} |-> field[k]]
    ELSE field

\* JSON.stringify of an array of fields / of responses. Strings, booleans and
\* arrays of strings are written as they are.
StringifyFields(fields) == [i \in 1..Len(fields) |-> StringifyField(fields[i])]
StringifyResponses(responses) == responses

\* JSON.parse: the objects get exactly the properties the text holds.
JSONParse(text) == text

\* localStorage: a function from the keys that are set to their text.
EmptyStore == <<>>
\* localStorage.getItem(key) || '[]'
GetItemOrEmpty(st, key) == IF key \in DOMAIN st THEN st[key] ELSE <<>>
\* localStorage.setItem
SetItem(st, key, text) ==
    [k \in DOMAIN st \cup {key} |-> IF k = key THEN text ELSE st[k]]

\* A saveForms that writes the key once and never refreshes it.
saveFormsOnce(st, fields) ==
    IF "forms" \in DOMAIN st THEN st ELSE SetItem(st, "forms", StringifyFields(fields))

\* saveForms: localStorage.setItem('forms', JSON.stringify(this.formFields))
saveForms(st, fields) == SetItem(st, "forms", StringifyFields(fields))

\* ------------------------------------------------------------------ state
VARIABLES
    formFields,      \* this.formFields: the array of FormField objects
    formResponses,   \* this.formResponses: the array of FormResponse objects
    store,           \* localStorage
    preview,         \* the children of #form, with their live input state
    formList,        \* the text of the children of #form-list
    responseReview,  \* the content of #response-review
    errorMessage,    \* the text of #error-message
    now,             \* Date.now()
    lastOp,          \* the handler that ran last, and how it ended
    events,          \* the number of user events so far
    added            \* history: the labels of the accepted adds, while the
                     \* session has run no handler but the add-field click

vars == <<formFields, formResponses, store, preview, formList,
          responseReview, errorMessage, now, lastOp, events, added>>

\* The text the add-field handler writes into #error-message.
InvalidLabelMessage == <<"Field label is invalid or already exists.">>

\* -------------------------------------------------------------- rendering
\* One div.form-field of renderForm: the label text, the control(s) of the
\* field's type and the id its Edit and Delete buttons are bound to. A text
\* input carries the id as its id, radio and checkbox inputs as their name.
\* A fresh control is empty, unchecked and without the class 'error'.
FieldElement(field) ==
    [ id      |-> field.id,
      type    |-> field.type,
      label   |-> field.label,
      options |-> IF field.type \in {"radio", "checkbox"}
                     /\ OptionsOf(field).defined
                  THEN OptionsOf(field).items ELSE <<>>,
      value   |-> <<>>,
      checked |-> {},
      error   |-> FALSE ]

\* renderForm: #form is emptied and rebuilt from this.formFields.
renderForm(fields) == [i \in 1..Len(fields) |-> FieldElement(fields[i])]

\* renderForms: one line `Form with ${field.label}` per field.
renderForms(fields) ==
    [i \in 1..Len(fields) |-> <<"Form with ">> \o fields[i].label]

\* A cell that hands the array itself to textContent: the array's own
\* string form separates the items by a bare comma.
RECURSIVE JoinBare(_)
JoinBare(arr) ==
    IF arr = <<>> THEN <<>>
    ELSE IF Len(arr) = 1 THEN arr[1]
    ELSE arr[1] \o <<",">> \o JoinBare(Tail(arr))

CellTextUnjoined(response, field) ==
    IF field.label \notin DOMAIN response.responses THEN <<>>
    ELSE LET v == response.responses[field.label]
         IN  IF v.isArray THEN JoinBare(v.arr) ELSE v.str

\* One cell of the response table: response.responses[field.label], an array
\* joined with ', ', a missing entry (textContent = undefined) blank.
CellText(response, field) ==
    IF field.label \notin DOMAIN response.responses THEN <<>>
    ELSE LET v == response.responses[field.label]
         IN  IF v.isArray THEN Join(v.arr) ELSE v.str

NoTable == [shown |-> FALSE, header |-> <<>>, rows |-> <<>>]

\* The table renderResponses builds when both collections are non-empty.
ResponseTable(fields, responses) ==
    [ shown  |-> TRUE,
      header |-> <<<<"Form ID">>>> \o [i \in 1..Len(fields) |-> fields[i].label],
      rows   |-> [r \in 1..Len(responses) |->
                     <<responses[r].formId>>
                     \o [i \in 1..Len(fields) |-> CellText(responses[r], fields[i])]] ]

\* A render pass that, finding no response to show, empties the responses and
\* the storage but leaves the field list alone.
renderResponsesKeepsFields(fields, responses, st) ==
    IF Len(responses) > 0 /\ Len(fields) # 0
    THEN [ fields |-> fields, responses |-> responses, store |-> st,
           review |-> ResponseTable(fields, responses), cleared |-> FALSE ]
    ELSE [ fields |-> fields, responses |-> <<>>, store |-> EmptyStore,
           review |-> NoTable, cleared |-> TRUE ]

\* A render pass that, finding no field to show, empties the field list and
\* the storage but leaves the recorded responses alone.
renderResponsesKeepsResponses(fields, responses, st) ==
    IF Len(responses) > 0 /\ Len(fields) # 0
    THEN [ fields |-> fields, responses |-> responses, store |-> st,
           review |-> ResponseTable(fields, responses), cleared |-> FALSE ]
    ELSE [ fields |-> <<>>, responses |-> responses, store |-> EmptyStore,
           review |-> NoTable, cleared |-> TRUE ]

\* renderResponses, as a function of the state it reads: the state it leaves.
\* With either collection empty it empties both arrays and clears localStorage.
renderResponses(fields, responses, st) ==
    IF Len(responses) > 0 /\ Len(fields) # 0
    THEN [ fields |-> fields, responses |-> responses, store |-> st,
           review |-> ResponseTable(fields, responses), cleared |-> FALSE ]
    ELSE [ fields |-> <<>>, responses |-> <<>>, store |-> EmptyStore,
           review |-> NoTable, cleared |-> TRUE ]

\* ------------------------------------------------------ reading the inputs
\* document.querySelector(`#${id}`): the first element of the preview with
\* that id, 0 for null. Only text inputs are given an id.
QuerySelectorId(pv, id) ==
    LET hits == { i \in 1..Len(pv) : pv[i].type = "text" /\ pv[i].id = id }
    IN  IF hits = {} THEN 0 ELSE CHOOSE i \in hits : \A j \in hits : i <= j

\* The values of the checked inputs of one block, in option order.
RECURSIVE CheckedOfBlock(_, _)
CheckedOfBlock(block, o) ==
    IF o > Len(block.options) THEN <<>>
    ELSE (IF o \in block.checked THEN <<block.options[o]>> ELSE <<>>)
         \o CheckedOfBlock(block, o + 1)

\* document.querySelectorAll(`input[name="${name}"]:checked`): the values of
\* the checked radio and checkbox inputs of that name, in document order.
RECURSIVE QuerySelectorAllChecked(_, _, _)
QuerySelectorAllChecked(pv, name, i) ==
    IF i > Len(pv) THEN <<>>
    ELSE (IF pv[i].type \in {"radio", "checkbox"} /\ pv[i].id = name
          THEN CheckedOfBlock(pv[i], 1) ELSE <<>>)
         \o QuerySelectorAllChecked(pv, name, i + 1)

\* document.querySelector(`input[name="${name}"]:checked`) is not null.
HasChecked(pv, name) == QuerySelectorAllChecked(pv, name, 1) # <<>>

\* classList.add('error') / classList.remove('error') on the element at i.
SetError(pv, i, flag) == [pv EXCEPT ![i].error = flag]

\* ------------------------------------------------------------ validateForm
\* One pass of the forEach of validateForm over field i and the fields after
\* it. `input` is null for a radio or checkbox field, whose inputs have no id:
\* input.classList.add then throws a TypeError, which ends the handler.
RECURSIVE ValidateFrom(_, _, _, _)
ValidateFrom(fields, i, valid, pv) ==
    IF i > Len(fields) THEN [result |-> IF valid THEN "true" ELSE "false", preview |-> pv]
    ELSE
      LET field == fields[i]
          input == QuerySelectorId(pv, field.id)
          thrown == [result |-> "thrown", preview |-> pv]
          removed == IF input # 0 THEN SetError(pv, input, FALSE) ELSE pv
      IN  IF field.required
          THEN IF field.type = "text"
               THEN IF input = 0 THEN thrown
                    ELSE IF pv[input].value = <<>>
                    THEN ValidateFrom(fields, i + 1, FALSE, SetError(pv, input, TRUE))
                    ELSE ValidateFrom(fields, i + 1, valid, removed)
               ELSE IF field.type \in {"radio", "checkbox"} /\ ~HasChecked(pv, field.id)
               THEN IF input = 0 THEN thrown
                    ELSE ValidateFrom(fields, i + 1, FALSE, SetError(pv, input, TRUE))
               ELSE ValidateFrom(fields, i + 1, valid, removed)
          ELSE ValidateFrom(fields, i + 1, valid, removed)

validateForm(fields, pv) == ValidateFrom(fields, 1, TRUE, pv)

\* validateForm of the TypeScript source: the same pass, but classList.remove
\* is called on `input` without a test, so a null `input` (a radio or checkbox
\* field, whose inputs have no id) throws a TypeError there as well.
RECURSIVE ValidateFromTs(_, _, _, _)
ValidateFromTs(fields, i, valid, pv) ==
    IF i > Len(fields) THEN [result |-> IF valid THEN "true" ELSE "false", preview |-> pv]
    ELSE
      LET field == fields[i]
          input == QuerySelectorId(pv, field.id)
          thrown == [result |-> "thrown", preview |-> pv]
      IN  IF field.required
          THEN IF field.type = "text"
               THEN IF input = 0 THEN thrown
                    ELSE IF pv[input].value = <<>>
                    THEN ValidateFromTs(fields, i + 1, FALSE, SetError(pv, input, TRUE))
                    ELSE ValidateFromTs(fields, i + 1, valid, SetError(pv, input, FALSE))
               ELSE IF field.type \in {"radio", "checkbox"} /\ ~HasChecked(pv, field.id)
               THEN IF input = 0 THEN thrown
                    ELSE ValidateFromTs(fields, i + 1, FALSE, SetError(pv, input, TRUE))
               ELSE IF input = 0 THEN thrown
                    ELSE ValidateFromTs(fields, i + 1, valid, SetError(pv, input, FALSE))
          ELSE IF input = 0 THEN thrown
               ELSE ValidateFromTs(fields, i + 1, valid, SetError(pv, input, FALSE))

validateFormTs(fields, pv) == ValidateFromTs(fields, 1, TRUE, pv)

\* -------------------------------------------------------------- submitForm
\* responses[key] = value
Assign(obj, key, value) ==
    [k \in DOMAIN obj \cup {key} |-> IF k = key THEN value ELSE obj[k]]

\* The forEach of submitForm over field i and the fields after it: the
\* `responses` object it builds, or thrown when a text input is null.
\* submitForm with the Checkbox branch guarded like the Radio branch: an
\* entry only when an input of the group is checked.
RECURSIVE ResponsesFromGuarded(_, _, _, _)
ResponsesFromGuarded(fields, pv, i, responses) ==
    IF i > Len(fields) THEN [thrown |-> FALSE, responses |-> responses]
    ELSE
      LET field == fields[i]
          input == QuerySelectorId(pv, field.id)
          selected == QuerySelectorAllChecked(pv, field.id, 1)
      IN  IF field.type = "text"
          THEN IF input = 0 THEN [thrown |-> TRUE, responses |-> responses]
               ELSE ResponsesFromGuarded(fields, pv, i + 1,
                        Assign(responses, field.label, StringValue(pv[input].value)))
          ELSE IF selected # <<>>
          THEN ResponsesFromGuarded(fields, pv, i + 1,
                   Assign(responses, field.label,
                          IF field.type = "radio" THEN StringValue(selected[1])
                          ELSE ArrayValue(selected)))
          ELSE ResponsesFromGuarded(fields, pv, i + 1, responses)

RECURSIVE ResponsesFrom(_, _, _, _)
ResponsesFrom(fields, pv, i, responses) ==
    IF i > Len(fields) THEN [thrown |-> FALSE, responses |-> responses]
    ELSE
      LET field == fields[i]
          input == QuerySelectorId(pv, field.id)
          selected == QuerySelectorAllChecked(pv, field.id, 1)
      IN  IF field.type = "text"
          THEN IF input = 0 THEN [thrown |-> TRUE, responses |-> responses]
               ELSE ResponsesFrom(fields, pv, i + 1,
                        Assign(responses, field.label, StringValue(pv[input].value)))
          ELSE IF field.type = "radio"
          THEN IF selected # <<>>
               THEN ResponsesFrom(fields, pv, i + 1,
                        Assign(responses, field.label, StringValue(selected[1])))
               ELSE ResponsesFrom(fields, pv, i + 1, responses)
          ELSE IF field.type = "checkbox"
          THEN ResponsesFrom(fields, pv, i + 1,
                   Assign(responses, field.label, ArrayValue(selected)))
          ELSE ResponsesFrom(fields, pv, i + 1, responses)

\* The `responses` object of submitForm.
BuildResponses(fields, pv) == ResponsesFrom(fields, pv, 1, <<>>)

\* An isValidLabel that compares the labels as typed, letter case included.
isValidLabelCaseSensitive(fields, label) ==
    IF Trim(label) = <<>> THEN FALSE
    ELSE ~ \E i \in 1..Len(fields) : fields[i].label = label

\* An isValidLabel that only looks for a duplicate.
isValidLabelDuplicateOnly(fields, label) ==
    ~ \E i \in 1..Len(fields) :
         ToLowerCase(fields[i].label) = ToLowerCase(label)

\* ------------------------------------------------------------ isValidLabel
isValidLabel(fields, label) ==
    IF Trim(label) = <<>> THEN FALSE
    ELSE ~ \E i \in 1..Len(fields) :
              ToLowerCase(fields[i].label) = ToLowerCase(label)

\* ---------------------------------------------------------------- actions
\* An id no field carries: its timestamp is beyond the clock's range.
UnknownId == FieldIdOf("text", MaxClock + 1)

\* The ids editField and deleteField are called with: the ids of the fields,
\* the ids the Edit and Delete buttons of the preview are bound to, and an id
\* that matches nothing.
CandidateIds ==
    { formFields[i].id : i \in 1..Len(formFields) }
    \cup { preview[i].id : i \in 1..Len(preview) }
    \cup { UnknownId }

\* One more user event, within the session's bound.
Event == events < MaxEvents /\ events' = events + 1

\* The history of a session that ran another handler than the add-field click.
OtherHandler == added' = [only |-> FALSE, labels |-> <<>>]

Done(op, result, cleared) == [op |-> op, result |-> result, cleared |-> cleared]

\* new FormBuilder() on a fresh browser session: loadForms over an empty
\* localStorage, whose renderResponses pass takes the else branch.
Init ==
    /\ formFields = <<>>
    /\ formResponses = <<>>
    /\ store = EmptyStore
    /\ preview = <<>>
    /\ formList = <<>>
    /\ responseReview = NoTable
    /\ errorMessage = <<>>
    /\ now = 0
    /\ lastOp = Done("load", "loaded", TRUE)
    /\ events = 0
    /\ added = [only |-> TRUE, labels |-> <<>>]

\* Reloading the page: the document is fresh, the constructor runs loadForms
\* on what localStorage holds: renderForm, renderForms, then renderResponses.
loadForms ==
    LET forms == JSONParse(GetItemOrEmpty(store, "forms"))
        responses == JSONParse(GetItemOrEmpty(store, "formResponses"))
        fields0 == IF Len(forms) # 0 THEN forms ELSE <<>>
        responses0 == IF Len(responses) # 0 THEN responses ELSE <<>>
        r == renderResponses(fields0, responses0, store)
    IN  /\ Event
        /\ OtherHandler
        /\ formFields' = r.fields
        /\ formResponses' = r.responses
        /\ store' = r.store
        /\ preview' = renderForm(fields0)
        /\ formList' = renderForms(fields0)
        /\ responseReview' = r.review
        /\ errorMessage' = <<>>
        /\ lastOp' = Done("load", "loaded", r.cleared)
        /\ UNCHANGED now

\* fieldOptionsInput.value.split(',').map((opt) => opt.trim())
ParseOptions(optionsText) ==
    [i \in 1..Len(Split(optionsText)) |-> Trim(Split(optionsText)[i])]

\* A click handler that normalises the label it stores to lower case.
NewFieldLowerCase(label, type, required, optionsText, t) ==
    [ id |-> FieldIdOf(type, t),
      type |-> type,
      label |-> ToLowerCase(label),
      options |-> IF type \in {"radio", "checkbox"}
                  THEN ArrayOf(ParseOptions(optionsText)) ELSE Undefined,
      required |-> required ]

\* The FormField object the add-field handler builds.
NewField(label, type, required, optionsText, t) ==
    [ id       |-> FieldIdOf(type, t),
      type     |-> type,
      label    |-> label,
      options  |-> IF type \in {"radio", "checkbox"}
                   THEN ArrayOf(ParseOptions(optionsText)) ELSE Undefined,
      required |-> required ]

\* The click handler of #add-field, with what the user typed and chose and
\* what confirm() returned; addField, saveForms and renderForm included.
AddFieldClick(label, type, required, optionsText) ==
    /\ Event
    /\ IF ~isValidLabel(formFields, label)
       THEN /\ errorMessage' = InvalidLabelMessage
            /\ lastOp' = Done("addField", "rejected", FALSE)
            /\ UNCHANGED <<formFields, formResponses, store, preview, formList,
                           responseReview, now, added>>
       ELSE LET fields1 == Append(formFields,
                               NewField(label, type, required, optionsText, now))
            IN  /\ Len(formFields) < MaxFields
                /\ formFields' = fields1
                /\ store' = saveForms(store, fields1)
                /\ preview' = renderForm(fields1)
                /\ errorMessage' = <<>>
                /\ lastOp' = Done("addField", "added", FALSE)
                /\ added' = [added EXCEPT !.labels =
                                 IF added.only THEN Append(@, label) ELSE @]
                /\ UNCHANGED <<formResponses, formList, responseReview, now>>

\* The index of the first field with that id, 0 when find returns undefined.
FindField(fields, id) ==
    LET hits == { i \in 1..Len(fields) : fields[i].id = id }
    IN  IF hits = {} THEN 0 ELSE CHOOSE i \in hits : \A j \in hits : i <= j

\* An editField that carries the rename into the recorded answers.
RenameKey(response, old, new) ==
    IF old \notin DOMAIN response.responses THEN response
    ELSE [response EXCEPT !.responses =
            [k \in (DOMAIN @ \ {old}) \cup {new} |->
                IF k = new THEN @[old] ELSE @[k]]]

editFieldCascading(id, newLabel) ==
    LET i == FindField(formFields, id)
    IN  /\ Event
        /\ OtherHandler
        /\ IF i = 0 \/ newLabel = Null
           THEN /\ lastOp' = Done("editField",
                                  IF i = 0 THEN "miss" ELSE "cancelled", FALSE)
                /\ UNCHANGED <<formFields, formResponses, store, preview,
                               formList, responseReview, errorMessage, now>>
           ELSE LET fields1 == [formFields EXCEPT ![i].label = newLabel]
                    responses1 == [n \in 1..Len(formResponses) |->
                                     RenameKey(formResponses[n],
                                               formFields[i].label, newLabel)]
                    store1 == saveForms(store, fields1)
                    r == renderResponses(fields1, responses1, store1)
                IN  /\ formFields' = r.fields
                    /\ formResponses' = r.responses
                    /\ store' = r.store
                    /\ preview' = renderForm(fields1)
                    /\ responseReview' = r.review
                    /\ lastOp' = Done("editField", "renamed", r.cleared)
                    /\ UNCHANGED <<formList, errorMessage, now>>

\* editField(id), with what prompt() returned.
editField(id, newLabel) ==
    LET i == FindField(formFields, id)
    IN  /\ Event
        /\ OtherHandler
        /\ IF i = 0 \/ newLabel = Null
           THEN /\ lastOp' = Done("editField",
                                  IF i = 0 THEN "miss" ELSE "cancelled", FALSE)
                /\ UNCHANGED <<formFields, formResponses, store, preview,
                               formList, responseReview, errorMessage, now>>
           ELSE LET fields1 == [formFields EXCEPT ![i].label = newLabel]
                    store1 == saveForms(store, fields1)
                    r == renderResponses(fields1, formResponses, store1)
                IN  /\ formFields' = r.fields
                    /\ formResponses' = r.responses
                    /\ store' = r.store
                    /\ preview' = renderForm(fields1)
                    /\ responseReview' = r.review
                    /\ lastOp' = Done("editField", "renamed", r.cleared)
                    /\ UNCHANGED <<formList, errorMessage, now>>

\* this.formFields.filter((field) => field.id !== id)
RECURSIVE FilterOutId(_, _)
FilterOutId(fields, id) ==
    IF fields = <<>> THEN <<>>
    ELSE (IF Head(fields).id # id THEN <<Head(fields)>> ELSE <<>>)
         \o FilterOutId(Tail(fields), id)

\* deleteField(id)
deleteField(id) ==
    LET fields1 == FilterOutId(formFields, id)
        store1 == saveForms(store, fields1)
        r == renderResponses(fields1, formResponses, store1)
    IN  /\ Event
        /\ OtherHandler
        /\ formFields' = r.fields
        /\ formResponses' = r.responses
        /\ store' = r.store
        /\ preview' = renderForm(fields1)
        /\ responseReview' = r.review
        /\ lastOp' = Done("deleteField",
                          IF FindField(formFields, id) = 0 THEN "miss" ELSE "hit",
                          r.cleared)
        /\ UNCHANGED <<formList, errorMessage, now>>

\* The FormResponse object submitForm pushes.
NewResponse(fields, pv, t) ==
    [formId |-> FormIdOf(t), responses |-> BuildResponses(fields, pv).responses]

\* The click handler of #submit-form: validateForm, then submitForm when it
\* returned true. A TypeError thrown by either ends the handler where it is.
SubmitClick ==
    LET v == validateForm(formFields, preview)
        thrown == v.result = "thrown" \/ BuildResponses(formFields, v.preview).thrown
        responses1 == Append(formResponses, NewResponse(formFields, v.preview, now))
        store1 == SetItem(store, "formResponses", StringifyResponses(responses1))
        r == renderResponses(formFields, responses1, store1)
    IN  /\ Event
        /\ OtherHandler
        /\ preview' = v.preview
        /\ IF v.result # "true" \/ thrown
           THEN /\ lastOp' = Done("submit",
                                  IF thrown THEN "thrown" ELSE "invalid", FALSE)
                /\ UNCHANGED <<formFields, formResponses, store, formList,
                               responseReview, errorMessage, now>>
           ELSE /\ Len(formResponses) < MaxResponses
                /\ formFields' = r.fields
                /\ formResponses' = r.responses
                /\ store' = r.store
                /\ responseReview' = r.review
                /\ lastOp' = Done("submit", "submitted", r.cleared)
                /\ UNCHANGED <<formList, errorMessage, now>>

\* The user types into the text input of block i. No code of the page runs.
TypeText(i, text) ==
    /\ Event
    /\ preview[i].type = "text"
    /\ preview' = [preview EXCEPT ![i].value = text]
    /\ UNCHANGED <<formFields, formResponses, store, formList, responseReview,
                   errorMessage, now, lastOp, added>>

\* The user clicks radio input o of block i: it becomes the one checked radio
\* of its group, the radio inputs of the same name.
ClickRadio(i, o) ==
    /\ Event
    /\ preview[i].type = "radio"
    /\ preview' = [j \in 1..Len(preview) |->
                      IF j = i THEN [preview[j] EXCEPT !.checked = {o}]
                      ELSE IF preview[j].type = "radio" /\ preview[j].id = preview[i].id
                      THEN [preview[j] EXCEPT !.checked = {}]
                      ELSE preview[j]]
    /\ UNCHANGED <<formFields, formResponses, store, formList, responseReview,
                   errorMessage, now, lastOp, added>>

\* The user clicks checkbox input o of block i, which toggles it.
ClickCheckbox(i, o) ==
    /\ Event
    /\ preview[i].type = "checkbox"
    /\ preview' = [preview EXCEPT ![i].checked =
                      IF o \in @ THEN @ \ {o} ELSE @ \cup {o}]
    /\ UNCHANGED <<formFields, formResponses, store, formList, responseReview,
                   errorMessage, now, lastOp, added>>

\* Time passes between two events: Date.now() may or may not have advanced.
Tick ==
    /\ now < MaxClock
    /\ now' = now + 1
    /\ UNCHANGED <<formFields, formResponses, store, preview, formList,
                   responseReview, errorMessage, lastOp, events, added>>

Next ==
    \/ loadForms
    \/ \E label \in LabelInputs, type \in FieldTypes, required \in BOOLEAN,
          optionsText \in OptionsInputs :
          AddFieldClick(label, type, required, optionsText)
    \/ \E id \in CandidateIds, newLabel \in PromptInputs : editField(id, newLabel)
    \/ \E id \in CandidateIds : deleteField(id)
    \/ SubmitClick
    \/ \E i \in 1..Len(preview), text \in TextInputs : TypeText(i, text)
    \/ \E i \in 1..Len(preview) : \E o \in 1..Len(preview[i].options) :
          ClickRadio(i, o)
    \/ \E i \in 1..Len(preview) : \E o \in 1..Len(preview[i].options) :
          ClickCheckbox(i, o)
    \/ Tick

Spec == Init /\ [][Next]_vars

\* ------------------------------------------------------- claims: helpers
\* The fields other than those with that id, in their order.
OtherFields(fields, id) == SelectSeq(fields, LAMBDA f : f.id # id)

\* A required field is satisfied: a Text field's input holds a non-empty
\* value, a Radio or Checkbox field has an option of its group selected.
Satisfied(field, pv) ==
    IF field.type = "text"
    THEN \E i \in 1..Len(pv) :
            pv[i].type = "text" /\ pv[i].id = field.id /\ pv[i].value # <<>>
    ELSE \E i \in 1..Len(pv) :
            pv[i].type = field.type /\ pv[i].id = field.id /\ pv[i].checked # {}

AllRequiredSatisfied(fields, pv) ==
    \A i \in 1..Len(fields) : fields[i].required => Satisfied(fields[i], pv)

LabelsOfType(fields, types) ==
    { fields[i].label : i \in { j \in 1..Len(fields) : fields[j].type \in types } }

LabelsSelected(fields, pv, types) ==
    { fields[i].label : i \in { j \in 1..Len(fields) :
          fields[j].type \in types /\ Satisfied(fields[j], pv) } }

\* The last handler was a submit click that pushed a record.
Submitted == lastOp.op = "submit" /\ lastOp.result = "submitted"

\* ------------------------------------------------------------------ C1
\* C1: after deleteField(id) for an id a field holds, in any reachable state
\* (also one without responses), no field with that id remains and every
\* other field is still in the collection, in its original relative order.
C1_DeleteKeepsOtherFields ==
    [][\A id \in CandidateIds :
          deleteField(id) /\ FindField(formFields, id) # 0
          => formFields' = OtherFields(formFields, id)]_vars

\* ------------------------------------------------------------------ C2
\* C2: after editField(id) with a non-empty new label for an existing id, the
\* collection has the same length and order, the field with that id carries
\* the new label and nothing else of any field has changed.
C2_EditChangesOnlyLabel ==
    [][\A id \in CandidateIds, newLabel \in PromptInputs \ {Null, <<>>} :
          editField(id, newLabel) /\ FindField(formFields, id) # 0
          => /\ Len(formFields') = Len(formFields)
             /\ \A k \in 1..Len(formFields) :
                   IF k = FindField(formFields, id)
                   THEN formFields'[k] = [formFields[k] EXCEPT !.label = newLabel]
                   ELSE formFields'[k] = formFields[k]]_vars

\* ------------------------------------------------------------------ C3
\* C3: in every reachable state in which all required fields are satisfied
\* (the state without fields included), a submit click leaves the response
\* collection one record longer, the new record last.
C3_SubmitAppendsOne ==
    [][SubmitClick /\ AllRequiredSatisfied(formFields, preview)
       => /\ Len(formResponses') = Len(formResponses) + 1
          /\ SubSeq(formResponses', 1, Len(formResponses)) = formResponses]_vars

\* ------------------------------------------------------------------ C4
\* C4, as stated: the answers of a record built by submit have as keys the
\* labels of all Text fields and the labels of the Radio and Checkbox fields
\* with a selected option; a Radio or Checkbox field without a selection
\* contributes no entry.
C4_KeysSkipUnselected ==
    [][SubmitClick /\ Submitted'
       => DOMAIN NewResponse(formFields, preview, now).responses
          = LabelsOfType(formFields, {"text"})
            \cup LabelsSelected(formFields, preview, {"radio", "checkbox"})]_vars

\* C4, amended: the answers of a record built by submit have as keys the
\* labels of all Text fields, of all Checkbox fields (an empty sequence when
\* nothing is selected) and of the Radio fields with a selected option; the
\* record is the one pushed, last in the collection unless the render pass
\* emptied it.
C4_KeysOfSubmittedRecord ==
    [][SubmitClick /\ Submitted'
       => /\ DOMAIN NewResponse(formFields, preview, now).responses
             = LabelsOfType(formFields, {"text", "checkbox"})
               \cup LabelsSelected(formFields, preview, {"radio"})
          /\ \A i \in 1..Len(formFields) :
                formFields[i].type = "checkbox" /\ ~Satisfied(formFields[i], preview)
                /\ (\A j \in i + 1..Len(formFields) : formFields[j].label # formFields[i].label)
                => NewResponse(formFields, preview, now).responses[formFields[i].label]
                   = ArrayValue(<<>>)
          /\ ~lastOp'.cleared
             => formResponses'[Len(formResponses')]
                = NewResponse(formFields, preview, now)]_vars

\* A submit pushed a record for a form with a Checkbox field and a Radio
\* field, neither with a selection: the record holds the Checkbox field's
\* label with an empty sequence and not the Radio field's label.
C4_Witness ==
    /\ Submitted
    /\ Len(formResponses) > 0
    /\ \E i, j \in 1..Len(formFields) :
          LET answers == formResponses[Len(formResponses)].responses
          IN  /\ formFields[i].type = "checkbox"
              /\ formFields[j].type = "radio"
              /\ formFields[i].label \in DOMAIN answers
              /\ answers[formFields[i].label] = ArrayValue(<<>>)
              /\ formFields[j].label \notin DOMAIN answers

\* ------------------------------------------------------------------ C5
\* C5: for every field collection and input state validateForm completes
\* without throwing, returns true iff every required field is satisfied and
\* false otherwise.
C5_ValidateReturnsBoolean ==
    validateForm(formFields, preview).result
    = IF AllRequiredSatisfied(formFields, preview) THEN "true" ELSE "false"

\* ------------------------------------------------------------------ C6
\* C6: in every reachable state every field's label is non-empty after
\* trimming.
C6_LabelsNonEmpty ==
    \A i \in 1..Len(formFields) : Trim(formFields[i].label) # <<>>

\* ------------------------------------------------------------------ C7
\* C7: in every reachable state no two fields have labels that are equal
\* case-insensitively.
C7_LabelsUnique ==
    \A i, j \in 1..Len(formFields) :
        i # j => ToLowerCase(formFields[i].label) # ToLowerCase(formFields[j].label)

\* ------------------------------------------------------------------ C8
\* C8: after every completed operation the preview shows exactly one block
\* per field of the in-memory collection, in field order, with the field's
\* current label, and no block of a field that is not in the collection.
C8_PreviewShowsFields ==
    /\ Len(preview) = Len(formFields)
    /\ \A i \in 1..Len(formFields) :
          /\ preview[i].id = formFields[i].id
          /\ preview[i].label = formFields[i].label

C10_ResponsesSurviveFieldChange ==
    [][\A id \in CandidateIds :
          /\ Len(formResponses) >= 1
          /\ deleteField(id) \/ \E newLabel \in PromptInputs : editField(id, newLabel)
          => formResponses' = formResponses]_vars

\* ------------------------------------------------------------------- C11
\* What one run of the response-table render pass leaves, given the two
\* collections and the storage the handler hands to it.
RenderPassLeaves(fields, responses, st) ==
    IF fields # <<>> /\ responses # <<>>
    THEN /\ responseReview'.shown
         /\ formFields' = fields
         /\ formResponses' = responses
         /\ store' = st
    ELSE /\ ~responseReview'.shown
         /\ formFields' = <<>>
         /\ formResponses' = <<>>
         /\ DOMAIN store' = {}

\* C11: whenever the response-table render pass runs (at load, and at the end
\* of editField, deleteField and a successful submit): with both collections
\* non-empty it shows the table and changes neither collection nor the
\* storage; with either one empty it shows no table and leaves both
\* collections empty and the storage without any key.
C11_RenderPassShowsOrClears ==
    [][ /\ lastOp'.op = "load" /\ loadForms
           => RenderPassLeaves(JSONParse(GetItemOrEmpty(store, "forms")),
                               JSONParse(GetItemOrEmpty(store, "formResponses")),
                               store)
        /\ lastOp'.op = "editField" /\ lastOp'.result = "renamed"
           => \A id \in CandidateIds, newLabel \in PromptInputs \ {Null} :
                 editField(id, newLabel)
                 => LET fields1 == [formFields EXCEPT
                                      ![FindField(formFields, id)].label = newLabel]
                    IN  RenderPassLeaves(fields1, formResponses,
                                         saveForms(store, fields1))
        /\ lastOp'.op = "deleteField"
           => \A id \in CandidateIds :
                 deleteField(id)
                 => RenderPassLeaves(OtherFields(formFields, id), formResponses,
                                     saveForms(store, OtherFields(formFields, id)))
        /\ lastOp'.result = "submitted" /\ SubmitClick
           => LET responses1 == Append(formResponses,
                                       NewResponse(formFields, preview', now))
              IN  RenderPassLeaves(formFields, responses1,
                                   SetItem(store, "formResponses",
                                           StringifyResponses(responses1))) ]_vars

\* A rename reached the render pass with fields but no response: the pass
\* showed no table and emptied the field list behind the preview.
C11_Witness ==
    /\ lastOp = Done("editField", "renamed", TRUE)
    /\ preview # <<>>
    /\ formFields = <<>>
    /\ DOMAIN store = {}
    /\ ~responseReview.shown

\* ------------------------------------------------------------------- C12
\* Two field objects that read alike, property by property: a property that
\* is missing and one that holds undefined read alike.
SameField(a, b) ==
    /\ \A k \in {"id", "type", "label", "required"} : a[k] = b[k]
    /\ OptionsOf(a) = OptionsOf(b)

SameFields(decoded, fields) ==
    /\ Len(decoded) = Len(fields)
    /\ \A i \in 1..Len(fields) : SameField(decoded[i], fields[i])

\* C12: after every completed operation the persisted store mirrors memory:
\* the text under 'forms' decodes to the in-memory field collection and the
\* text under 'formResponses' to the in-memory response collection, an
\* absent key counting as the empty collection.
C12_StoreMirrorsMemory ==
    /\ SameFields(JSONParse(GetItemOrEmpty(store, "forms")), formFields)
    /\ JSONParse(GetItemOrEmpty(store, "formResponses")) = formResponses

\* Both keys are set and a rename has just been saved over an older text.
C12_Witness ==
    /\ lastOp = Done("editField", "renamed", FALSE)
    /\ DOMAIN store = {"forms", "formResponses"}
    /\ formFields # <<>>
    /\ formResponses # <<>>

\* ------------------------------------------------------------------- C13
\* Two strings equal up to the case of their letters.
EqualIgnoringCase(a, b) ==
    /\ Len(a) = Len(b)
    /\ \A k \in 1..Len(a) : LowerChar(a[k]) = LowerChar(b[k])

PairwiseDistinctIgnoringCase(labels) ==
    \A i, j \in 1..Len(labels) :
        i # j => ~EqualIgnoringCase(labels[i], labels[j])

\* C13: starting from an empty session, after n accepted add-field operations
\* whose labels are pairwise distinct case-insensitively, and no other
\* operation, the field collection holds exactly n fields, in the order
\* added, and each added label is the label of exactly one field.
C13_AddsAccumulateInOrder ==
    added.only /\ PairwiseDistinctIgnoringCase(added.labels)
    => /\ Len(formFields) = Len(added.labels)
       /\ \A i \in 1..Len(added.labels) :
             /\ formFields[i].label = added.labels[i]
             /\ Cardinality({ j \in 1..Len(formFields) :
                                formFields[j].label = added.labels[i] }) = 1

\* A session of nothing but adds that has accepted two labels.
C13_Witness ==
    /\ added.only
    /\ Len(added.labels) = 2
    /\ PairwiseDistinctIgnoringCase(added.labels)
    /\ lastOp = Done("addField", "added", FALSE)

\* ------------------------------------------------------------------- C14
\* Candidate strings: empty, blank, padded, and letters in both cases.
CandidateLabels ==
    LabelInputs \cup { <<" ", " ">>, <<" ", "a">>, <<"a", " ">>, <<"B">>, <<"a", "b">> }

\* Empty or made of white space only.
Blank(s) == \A k \in 1..Len(s) : IsWhiteSpace(s[k])

\* C14: for every candidate string and every field collection,
\* isValidLabel(candidate) is false when the candidate is empty or
\* whitespace-only or equals an existing field's label case-insensitively,
\* and true in every other case; it changes no state, being a function of
\* the candidate and the field collection alone.
C14_IsValidLabelDecides ==
    \A candidate \in CandidateLabels :
        isValidLabel(formFields, candidate)
        = ~ ( \/ Blank(candidate)
              \/ \E i \in 1..Len(formFields) :
                    EqualIgnoringCase(candidate, formFields[i].label) )

\* A field collection against which one candidate fails by letter case
\* alone, one passes though padded, and one passes as a new label.
C14_Witness ==
    /\ \E i \in 1..Len(formFields) : formFields[i].label = <<"a">>
    /\ ~isValidLabel(formFields, <<"A">>)
    /\ isValidLabel(formFields, <<"a", " ">>)
    /\ isValidLabel(formFields, <<"b">>)
    /\ ~isValidLabel(formFields, <<" ", " ">>)

\* ------------------------------------------------------------------- C15
\* The steps of the add-field click: of the handlers only this one leaves
\* lastOp naming it, and typing or ticking a box never changes the fields.
RejectedAddStep ==
    /\ events' # events
    /\ lastOp' = Done("addField", "rejected", FALSE)
    /\ preview' = preview

AcceptedAddStep ==
    /\ events' # events
    /\ lastOp' = Done("addField", "added", FALSE)
    /\ formFields' # formFields

\* C15: an add-field click whose label is empty after trimming or duplicates
\* an existing label case-insensitively is rejected: the error message is
\* shown and the field collection, the response collection and the persisted
\* store are unchanged; an accepted add clears the message. A step of the
\* add-field click is either rejected or accepted, so the first half reads:
\* the label of an accepted click is neither blank nor a duplicate.
C15_RejectedAddChangesNothing ==
    [][/\ RejectedAddStep
          => /\ errorMessage' = InvalidLabelMessage
             /\ UNCHANGED <<formFields, formResponses, store>>
       /\ AcceptedAddStep
          => /\ errorMessage' = <<>>
             /\ Len(formFields') = Len(formFields) + 1
             /\ LET label == formFields'[Len(formFields')].label
                IN  /\ ~Blank(label)
                    /\ \A i \in 1..Len(formFields) :
                          ~EqualIgnoringCase(label, formFields[i].label)]_vars

\* A duplicate was just rejected with fields and responses in place.
C15_Witness ==
    /\ lastOp = Done("addField", "rejected", FALSE)
    /\ errorMessage = InvalidLabelMessage
    /\ formFields # <<>>
    /\ formResponses # <<>>
    /\ DOMAIN store = {"forms", "formResponses"}

\* ------------------------------------------------------------------- C16
\* A field is unsatisfied when its own text input is empty, or when no option
\* of its group is selected. The preview lists the inputs in field order.
Unsatisfied(i) ==
    IF formFields[i].type = "text"
    THEN i \in 1..Len(preview) /\ preview[i].value = <<>>
    ELSE ~Satisfied(formFields[i], preview)

SomeRequiredUnsatisfied ==
    \E i \in 1..Len(formFields) : formFields[i].required /\ Unsatisfied(i)

\* C16: in every reachable state in which at least one required field is
\* unsatisfied, a submit click appends no response record and leaves the
\* field collection, the response collection and the persisted store
\* unchanged.
C16_UnsatisfiedBlocksSubmit ==
    [][SubmitClick /\ SomeRequiredUnsatisfied
       => UNCHANGED <<formFields, formResponses, store>>]_vars

\* ------------------------------------------------------------------- C17
\* The last handler ended with a render pass that drew the table. Typing and
\* ticking boxes afterwards touch neither the table nor the collections.
TableRendered ==
    /\ ~lastOp.cleared
    /\ \/ lastOp.op \in {"load", "deleteField"}
       \/ lastOp.op = "editField" /\ lastOp.result = "renamed"
       \/ Submitted

\* The first n items of arr, each but the first preceded by ", ".
RECURSIVE JoinedUpTo(_, _)
JoinedUpTo(arr, n) ==
    IF n = 0 THEN <<>>
    ELSE IF n = 1 THEN arr[1]
    ELSE JoinedUpTo(arr, n - 1) \o <<",", " ">> \o arr[n]

\* The text a cell is to show for a record under a label.
ExpectedCell(record, label) ==
    IF label \notin DOMAIN record.responses THEN <<>>
    ELSE IF record.responses[label].isArray
         THEN JoinedUpTo(record.responses[label].arr,
                         Len(record.responses[label].arr))
         ELSE record.responses[label].str

\* C17: whenever the response table is rendered, its header is 'Form ID'
\* followed by one column per current field label in field order, it has one
\* row per response record in record order, and each cell is the record's
\* answer under the field's current label: a Checkbox sequence joined with
\* ', ', a single value verbatim, blank when the record has no entry under
\* that label.
C17_TableShowsAnswersByLabel ==
    TableRendered
    => /\ responseReview.shown
       /\ Len(responseReview.header) = Len(formFields) + 1
       /\ responseReview.header[1] = <<"Form ID">>
       /\ \A i \in 1..Len(formFields) :
             responseReview.header[i + 1] = formFields[i].label
       /\ Len(responseReview.rows) = Len(formResponses)
       /\ \A r \in 1..Len(formResponses) :
             /\ Len(responseReview.rows[r]) = Len(formFields) + 1
             /\ responseReview.rows[r][1] = formResponses[r].formId
             /\ \A i \in 1..Len(formFields) :
                   responseReview.rows[r][i + 1]
                   = ExpectedCell(formResponses[r], formFields[i].label)

\* A submitted record with two boxes ticked is shown as "r, b".
C17_Witness ==
    /\ TableRendered
    /\ \E r \in 1..Len(formResponses), i \in 1..Len(formFields) :
          /\ formFields[i].type = "checkbox"
          /\ formFields[i].label \in DOMAIN formResponses[r].responses
          /\ Len(formResponses[r].responses[formFields[i].label].arr) = 2
          /\ responseReview.rows[r][i + 1] = <<"r", ",", " ", "b">>

\* ------------------------------------------------------------------- C18
\* The last handler changed the field collection: an accepted add, a rename,
\* a delete, or any handler whose render pass emptied the collections.
FieldsChanged ==
    \/ lastOp.op = "addField" /\ lastOp.result = "added"
    \/ lastOp.op = "editField" /\ lastOp.result = "renamed"
    \/ lastOp.op = "deleteField" /\ lastOp.result = "hit"
    \/ lastOp.cleared

\* C18: after every completed operation that changes the field collection
\* (add-field, editField, deleteField, teardown) the form list view holds
\* exactly one summary line per field of the current in-memory field
\* collection, in field order.
C18_FormListFollowsFields ==
    FieldsChanged
    => /\ Len(formList) = Len(formFields)
       /\ \A i \in 1..Len(formFields) :
             formList[i] = renderForms(<<formFields[i]>>)[1]

\* ------------------------------------------------------------------- C19
\* C19: across every step the response collection changes only in one of two
\* ways: a successful submit appends a single record at the end and leaves
\* all earlier records as they were, or a teardown empties the whole
\* collection; no record is ever modified, reordered or removed on its own.
C19_ResponsesAppendOrClear ==
    [][\/ formResponses' = formResponses
       \/ /\ lastOp'.op = "submit" /\ lastOp'.result = "submitted"
          /\ Len(formResponses') = Len(formResponses) + 1
          /\ SubSeq(formResponses', 1, Len(formResponses)) = formResponses
       \/ /\ lastOp'.cleared
          /\ formResponses' = <<>>]_vars

\* A second record was appended behind the first, and a rename was shown
\* with both still in place.
C19_Witness ==
    /\ lastOp = Done("editField", "renamed", FALSE)
    /\ Len(formResponses) = 2
    /\ formResponses[1] # formResponses[2]

\* ------------------------------------------------------------------- C20
\* C20: in every reachable state the field ids are pairwise distinct, the
\* clock being allowed to stay equal between two add-field clicks, so that
\* deleteField(id) for an existing id removes exactly one field.
C20_FieldIdsDistinct ==
    \A i, j \in 1..Len(formFields) :
        i # j => formFields[i].id # formFields[j].id

\* ------------------------------------------------------------------- C21
\* C21: in every state reached at the end of an operation, if the response
\* collection is non-empty then the field collection is non-empty. (The
\* converse does not hold: after an add there are fields and no response.)
C21_ResponsesNeedFields ==
    formResponses # <<>> => formFields # <<>>

\* One of two fields was deleted and the recorded responses are still there.
C21_Witness ==
    /\ lastOp = Done("deleteField", "hit", FALSE)
    /\ formResponses # <<>>
    /\ Len(formFields) = 1

\* ------------------------------------------------------------------- C22
\* C22: for every state reachable at the end of an operation, reloading the
\* session (a new controller running loadForms on the persisted store)
\* yields the same in-memory field collection and response collection as
\* before the reload; in particular fields added but not yet answered
\* survive a reload.
C22_ReloadRestoresMemory ==
    [][loadForms
       => /\ SameFields(formFields', formFields)
          /\ formResponses' = formResponses]_vars

\* ------------------------------------------------------------------- C23
\* What a submit click leaves, given what validateForm returned: submitForm
\* runs only after a true result, and a throw ends the handler where it is.
SubmitOutcome(v) ==
    LET accepted == v.result = "true" /\ ~BuildResponses(formFields, v.preview).thrown
        responses1 == Append(formResponses, NewResponse(formFields, v.preview, now))
        r == renderResponses(formFields, responses1,
                             SetItem(store, "formResponses",
                                     StringifyResponses(responses1)))
    IN  [ validation |-> v.result,
          fields     |-> IF accepted THEN r.fields ELSE formFields,
          responses  |-> IF accepted THEN r.responses ELSE formResponses ]

\* C23: for every field collection and input state, a submit click in the
\* TypeScript source has the same outcome as in the compiled script: the same
\* validation result (true, false or thrown) and the same resulting field
\* and response collections.
C23_VersionsAgreeOnSubmit ==
    SubmitOutcome(validateFormTs(formFields, preview))
    = SubmitOutcome(validateForm(formFields, preview))

====
